---- MODULE Spec2Model ----
(***************************************************************************)
(* page-shots: the job scheduler (Screenshot class around a               *)
(* puppeteer-cluster pool, driven by screenshotHandler) and the capture    *)
(* engine (getScreenshot / getFullPageScreenshot).                         *)
(*                                                                         *)
(* Three specifications share this module:                                 *)
(*   Spec        - one run of screenshotHandler: launch, config files,     *)
(*                 queueing, the pool running the jobs, drain, close.      *)
(*   SpecCapture - one job inside a worker: getScreenshot step by step.    *)
(*   SpecConfig  - one processOptions call: the config file and the        *)
(*                 command line options parsed into the descriptors.       *)
(***************************************************************************)
EXTENDS Integers, Sequences, FiniteSets, TLC

(***************************************************************************)
(* Bounds of the model and constants of the program.                       *)
(***************************************************************************)
\* Cluster.launch({ maxConcurrency: 10 })
maxConcurrency == 10
\* largest number of jobs queued in one run
MaxJobs == 11
\* largest number of JSON config files given on the command line
MaxFiles == 2
\* const maxScrollLoops = 50 in getFullPageScreenshot
maxScrollLoops == 50
\* largest document height of a page, in CSS pixels
MaxHeight == 6

Min(a, b) == IF a < b THEN a ELSE b
Max(a, b) == IF a > b THEN a ELSE b

VARIABLES
    \* ---- screenshotHandler / Screenshot / cluster --------------------
    pc,            \* position of screenshotHandler
    configFiles,   \* the config files found by globSync, in order
    cliUrls,       \* number of URLs given with -u on the command line
    fileIdx,       \* number of config files handled by the forEach so far
    urls,          \* defaultConfig.urls, the array every ConfigParser shares
    sizes,         \* defaultConfig.sizes, the array every ConfigParser shares
    fault,         \* what goes wrong in the job with a given queue number
    jobData,       \* every job given to cluster.queue, in queueing order
    jobQueue,      \* the cluster's queue of waiting jobs (FIFO)
    workersBusy,   \* the jobs being run, each by a worker of its own
    runs,          \* job -> number of times the task function was started on it
    result,        \* job -> "none" | "success" | "failure"
    errorCount,    \* the cluster's count of jobs whose task function threw
    drainStarted,  \* cluster.idle() has been called
    drainReturned, \* cluster.idle() has resolved
    closed,        \* cluster.close() has been called
    queuedLate,    \* some cluster.queue call came after idle() or close()
    launchFailed,  \* Cluster.launch rejected
    \* ---- one job: getScreenshot / getFullPageScreenshot ---------------
    cpc,             \* position inside getScreenshot
    configParam,     \* the options (ConfigParam) the descriptor was parsed from
    url,             \* the descriptor (UrlData) of the job
    docHeight,       \* the page: document.documentElement.scrollHeight
    scrollY,         \* the page: window.scrollY
    index,           \* loop counter of the loop being run
    lastHeight,      \* getFullPageScreenshot: lastHeight
    sameHeightCount, \* getFullPageScreenshot: sameHeightCount
    pageSizeInfo,    \* getFullPageScreenshot: pageSizeInfo
    fullHeight,      \* getFullPageScreenshot: fullHeight, -1 before it is measured
    shots,           \* the page.screenshot calls made, in order
    loopScrolls,     \* scrollDown calls made by the stabilization loop
    stitchHides,     \* hideElements(page, url.hideStitchSelector) calls made
    stitched,        \* stitchImages has been called
    log,             \* what the job reported: "saved" and "error" entries
    fileWritten,     \* the image file exists at url.path
    image,           \* the content of the file at url.path
    threw,           \* getScreenshot ended by throwing to the cluster
    failed,          \* the step that rejected, "" when none did
    \* ---- one processOptions call: ConfigParser, setupUrl, queueing -----
    ppc,               \* position inside processOptions / getScreenshots
    args,              \* the options typed on the command line
    configFileOptions, \* the content of the JSON config file
    parserConfig,      \* config of the ConfigParser of processOptions
    urlObject,         \* getScreenshots: urlObject of the URL being queued
    urlIdx,            \* getScreenshots: number of URLs handled so far
    sizeIdx,           \* getScreenshots: number of sizes of the URL queued
    queued             \* the descriptors given to cluster.queue, in order

poolVars == <<pc, configFiles, cliUrls, fileIdx, urls, sizes, fault, jobData,
              jobQueue, workersBusy, runs, result, errorCount, drainStarted,
              drainReturned, closed, queuedLate, launchFailed>>

captureVars == <<cpc, configParam, url, docHeight, scrollY, index, lastHeight,
                 sameHeightCount, pageSizeInfo, fullHeight, shots, loopScrolls,
                 stitchHides, stitched, log, fileWritten, image, threw, failed>>

parserVars == <<ppc, args, configFileOptions, parserConfig, urlObject, urlIdx,
                sizeIdx, queued>>

vars == <<poolVars, captureVars, parserVars>>

JobIds == 1..MaxJobs

\* What can go wrong in a job: nothing, page.goto rejects (unreachable URL),
\* page.screenshot rejects, writing the image file fails.
FaultKinds == {"none", "nav", "capture", "write"}

(***************************************************************************)
(* getScreenshot, seen from the pool.                                      *)
(***************************************************************************)
\* page.goto is awaited outside any try block: its rejection leaves
\* getScreenshot and the task function.
TaskThrows(f) == f = "nav"

\* the image file exists after the task only when nothing went wrong
TaskWritesFile(f) == f = "none"

(***************************************************************************)
(* The jobs one getScreenshots call queues: for every URL of the config,   *)
(* one job per size, or one job when the config has no size.               *)
(***************************************************************************)
\* the size of a job queued for a URL without sizes
NoSize == [from |-> -1, n |-> 0]

\* The viewport of a size entry: the n-th size a config file lists is
\* 1200x560, 600x400, 1200x800; a job without size has the default 1300x900.
Viewport(size) ==
    CASE size.n = 1 -> [width |-> 1200, height |-> 560]
      [] size.n = 2 -> [width |-> 600, height |-> 400]
      [] size.n = 3 -> [width |-> 1200, height |-> 800]
      [] OTHER -> [width |-> 1300, height |-> 900]

\* formatFileName with the default nameFormat '{urlNoWww}-{width}': the
\* name made from the URL (different for the different URLs of a run) and
\* the viewport width
formatFileName(u, size) == [urlNoWww |-> u, width |-> Viewport(size).width]

\* getUrlPath without fileName: dir / formatted name . fileType
getUrlPath(u, size) == formatFileName(u, size)

RECURSIVE JobsOf(_, _, _)
JobsOf(us, ss, f) ==
    IF us = <<>> THEN <<>>
    ELSE LET u == Head(us)
             forUrl == IF Len(ss) > 0
                       THEN [i \in 1..Len(ss) |->
                               [url |-> u, size |-> ss[i], file |-> f,
                                path |-> getUrlPath(u, ss[i])]]
                       ELSE <<[url |-> u, size |-> NoSize, file |-> f,
                               path |-> getUrlPath(u, NoSize)]>>
         IN forUrl \o JobsOf(Tail(us), ss, f)

\* entries k pushed on a shared array by a parse of source src
Pushed(src, k) == [i \in 1..k |-> [from |-> src, n |-> i]]

(***************************************************************************)
(* Inputs of a run.                                                        *)
(***************************************************************************)
\* numbers of URLs / sizes one config file may list
UrlCounts == {1, 5}
SizeCounts == {0, 3}

\* A config file as globSync returned it: readable JSON ("ok"), a name that
\* fs.existsSync rejects ("missing"), or a file fs.readJsonSync throws on
\* ("invalid").
FileInputs ==
    [status : {"ok"}, urls : UrlCounts, sizes : SizeCounts]
    \cup [status : {"missing", "invalid"}, urls : {0}, sizes : {0}]

FileSeqs == UNION {[1..n -> FileInputs] : n \in 0..MaxFiles}

\* The number of jobs a run with these inputs queues (the shared urls and
\* sizes arrays grow from call to call of processOptions).
RECURSIVE QueuedBy(_, _, _, _)
QueuedBy(files, cli, nu, ns) ==
    IF files = <<>> THEN 0
    ELSE LET f == Head(files)
         IN IF f.status = "invalid" THEN 0
            ELSE IF f.status = "missing" THEN QueuedBy(Tail(files), cli, nu, ns)
            ELSE LET u == nu + f.urls + cli
                     s == ns + f.sizes
                 IN u * Max(1, s) + QueuedBy(Tail(files), cli, u, s)

TotalQueued(files, cli) ==
    IF files = <<>> THEN cli ELSE QueuedBy(files, cli, 0, 0)

\* At most one job of a batch of n is given something to fail on: the first
\* one queued, or the last one (which waits for a worker in a full batch).
FaultInputs(n) ==
    {[j \in JobIds |-> "none"]}
    \cup {[j \in JobIds |-> IF j = b THEN k ELSE "none"] :
             b \in {1, n} \cap JobIds, k \in FaultKinds \ {"none"}}

(***************************************************************************)
(* Option values as they reach the ConfigParser from commander or from a   *)
(* JSON file: undefined (the key is missing), a number, or a string. A     *)
(* string is the sequence of its characters. The numbers followed are      *)
(* integers.                                                               *)
(***************************************************************************)
Undefined == [t |-> "undefined"]
Num(n) == [t |-> "number", n |-> n]
Str(s) == [t |-> "string", s |-> s]

\* the result of a conversion to a number: NaN or an integer
NaN == [nan |-> TRUE]
Int_(n) == [nan |-> FALSE, n |-> n]

DigitVal(c) ==
    CASE c = "0" -> 0 [] c = "1" -> 1 [] c = "2" -> 2 [] c = "3" -> 3
      [] c = "4" -> 4 [] c = "5" -> 5 [] c = "6" -> 6 [] c = "7" -> 7
      [] c = "8" -> 8 [] c = "9" -> 9

IsDigit(c) == c \in {"0", "1", "2", "3", "4", "5", "6", "7", "8", "9"}

RECURSIVE TrimStart(_)
TrimStart(s) ==
    IF s # <<>> /\ Head(s) = " " THEN TrimStart(Tail(s)) ELSE s

RECURSIVE TrimEnd(_)
TrimEnd(s) ==
    IF s # <<>> /\ s[Len(s)] = " " THEN TrimEnd(SubSeq(s, 1, Len(s) - 1)) ELSE s

\* String.prototype.trim
Trim(s) == TrimEnd(TrimStart(s))

\* the longest prefix of s made of decimal digits
RECURSIVE DigitPrefix(_)
DigitPrefix(s) ==
    IF s # <<>> /\ IsDigit(Head(s)) THEN <<Head(s)>> \o DigitPrefix(Tail(s))
    ELSE <<>>

\* the value of a sequence of decimal digits
RECURSIVE DecimalValue(_)
DecimalValue(ds) ==
    IF ds = <<>> THEN 0
    ELSE 10 * DecimalValue(SubSeq(ds, 1, Len(ds) - 1)) + DigitVal(ds[Len(ds)])

RECURSIVE Pow10(_)
Pow10(k) == IF k = 0 THEN 1 ELSE 10 * Pow10(k - 1)

\* an optional sign in front of s: <<sign, rest>>
Signed(s) ==
    IF s # <<>> /\ Head(s) = "-" THEN <<-1, Tail(s)>>
    ELSE IF s # <<>> /\ Head(s) = "+" THEN <<1, Tail(s)>>
    ELSE <<1, s>>

\* parseInt(string, 10): leading white space, an optional sign, then the
\* longest run of decimal digits; what follows the digits is ignored; NaN
\* when there is no digit
parseInt(s) ==
    LET signed == Signed(TrimStart(s))
        digits == DigitPrefix(signed[2])
    IN IF digits = <<>> THEN NaN ELSE Int_(signed[1] * DecimalValue(digits))

\* Number(string) for the strings followed: the whole trimmed string has to
\* be a decimal literal, digits with an optional exponent part (e digits);
\* NaN otherwise. (Hexadecimal literals, fractions and Infinity are not
\* among the strings followed.)
StringToNumber(s) ==
    LET signed == Signed(Trim(s))
        digits == DigitPrefix(signed[2])
        rest == SubSeq(signed[2], Len(digits) + 1, Len(signed[2]))
        exponent == IF rest # <<>> /\ Head(rest) = "e"
                    THEN DigitPrefix(Tail(rest)) ELSE <<>>
    IN IF Trim(s) = <<>> THEN Int_(0)
       ELSE IF digits = <<>> THEN NaN
       ELSE IF rest = <<>> THEN Int_(signed[1] * DecimalValue(digits))
       ELSE IF exponent # <<>> /\ Len(rest) = 1 + Len(exponent)
       THEN Int_(signed[1] * DecimalValue(digits) * Pow10(DecimalValue(exponent)))
       ELSE NaN

\* lib/types: isNumber, isNumberString, isNumberOrNumberString,
\* isStringWithValue
isNumber(thing) == thing.t = "number"

isNumberString(thing) ==
    /\ thing.t = "string"
    /\ Trim(thing.s) # <<>>
    /\ ~StringToNumber(thing.s).nan

isNumberOrNumberString(thing) == isNumber(thing) \/ isNumberString(thing)

isStringWithValue(thing) == thing.t = "string" /\ Trim(thing.s) # <<>>

\* parseInt(value.toString(), 10) of a number or a string: an integer
\* number is its own value
ParseIntOf(value) ==
    IF value.t = "number" THEN Int_(value.n)
    ELSE IF value.t = "string" THEN parseInt(value.s)
    ELSE NaN

\* `x > 0` of a parseInt result: false for NaN
Positive(r) == ~r.nan /\ r.n > 0

\* processHeightWidth: the positive integer a height or width option
\* gives, 0 otherwise
processHeightWidth(value) ==
    IF isNumberOrNumberString(value) /\ Positive(ParseIntOf(value))
    THEN ParseIntOf(value).n
    ELSE 0

\* the capture variables while the pool is the subject
NoClip == [x |-> 0, y |-> 0, width |-> 0, height |-> 0]

NoUrl == [clip |-> NoClip, fullScreen |-> FALSE, height |-> 0, width |-> 0,
          deviceScaleFactor |-> 0, stitchThreshold |-> 0, delay |-> 0,
          hideSelector |-> FALSE, hideStitchSelector |-> FALSE,
          fileType |-> ""]

\* a file name or name format (the name option): its text, whether it has
\* {placeholders}, and what extname gives for it ("" when it has none)
NoName == [text |-> "", pattern |-> FALSE, ext |-> ""]

\* no options: a ConfigParam without any of the keys the model follows
NoParam == [base |-> Undefined, clip |-> NoClip, delay |-> Undefined,
            fit |-> "unset", fullScreen |-> "unset", height |-> Undefined,
            width |-> Undefined, pixelRatio |-> Undefined,
            stitchThreshold |-> Undefined, quality |-> Undefined,
            scrollDelay |-> Undefined, hideSelector |-> FALSE,
            hideStitchSelector |-> FALSE, type |-> "", name |-> NoName,
            url |-> Undefined, urls |-> <<>>, sizes |-> <<>>]

\* no file at url.path
NoImage == [type |-> "", height |-> 0, parts |-> <<>>]

NoInfo == [pages |-> 0, extraHeight |-> 0, pageHeight |-> 0,
           viewport |-> [height |-> 0, width |-> 0]]

CaptureOff ==
    /\ cpc = "off"
    /\ configParam = NoParam
    /\ url = NoUrl
    /\ docHeight = 0
    /\ scrollY = 0
    /\ index = 0
    /\ lastHeight = 0
    /\ sameHeightCount = 0
    /\ pageSizeInfo = NoInfo
    /\ fullHeight = -1
    /\ shots = <<>>
    /\ loopScrolls = 0
    /\ stitchHides = 0
    /\ stitched = FALSE
    /\ log = <<>>
    /\ fileWritten = FALSE
    /\ image = NoImage
    /\ threw = FALSE
    /\ failed = ""

\* the parser variables while the pool or one job is the subject
ParserOff ==
    /\ ppc = "off"
    /\ args = NoParam
    /\ configFileOptions = NoParam
    /\ parserConfig = NoUrl
    /\ urlObject = NoUrl
    /\ urlIdx = 0
    /\ sizeIdx = 0
    /\ queued = <<>>

Init ==
    /\ pc = "init"
    /\ configFiles \in FileSeqs
    /\ cliUrls \in {0, 1}
    /\ TotalQueued(configFiles, cliUrls) <= MaxJobs
    /\ fault \in FaultInputs(TotalQueued(configFiles, cliUrls))
    /\ fileIdx = 0
    /\ urls = <<>>
    /\ sizes = <<>>
    /\ jobData = <<>>
    /\ jobQueue = <<>>
    /\ workersBusy = {}
    /\ runs = [j \in JobIds |-> 0]
    /\ result = [j \in JobIds |-> "none"]
    /\ errorCount = 0
    /\ drainStarted = FALSE
    /\ drainReturned = FALSE
    /\ closed = FALSE
    /\ queuedLate = FALSE
    /\ launchFailed = FALSE
    /\ CaptureOff
    /\ ParserOff

(***************************************************************************)
(* Screenshot.init: Cluster.launch and cluster.task.                       *)
(***************************************************************************)
\* the launch succeeds: the handler goes on to the config files
LaunchOk ==
    /\ pc = "init"
    /\ pc' = "files"
    /\ UNCHANGED <<configFiles, cliUrls, fileIdx, urls, sizes, fault, jobData,
                   jobQueue, workersBusy, runs, result, errorCount,
                   drainStarted, drainReturned, closed, queuedLate>>
    /\ UNCHANGED <<launchFailed, captureVars, parserVars>>

\* Cluster.launch rejects: `await screenshot.init(options)` throws out of
\* screenshotHandler, nothing after it runs
\* a handler that goes on after a failed launch
AfterLaunchFailureMut == "files"

AfterLaunchFailure == "aborted"

LaunchFails ==
    /\ pc = "init"
    /\ pc' = AfterLaunchFailure
    /\ launchFailed' = TRUE
    /\ UNCHANGED <<configFiles, cliUrls, fileIdx, urls, sizes, fault, jobData,
                   jobQueue, workersBusy, runs, result, errorCount,
                   drainStarted, drainReturned, closed, queuedLate>>
    /\ UNCHANGED <<captureVars, parserVars>>

(***************************************************************************)
(* Screenshot.processOptions + Screenshot.getScreenshots: parse the file   *)
(* options, then the command line options, then queue one job per URL and  *)
(* size. Nothing in it is awaited, so it runs as one step.                 *)
(***************************************************************************)
ProcessOptions(f, fileUrls, fileSizes) ==
    LET us == urls \o Pushed(f, fileUrls) \o Pushed(0, cliUrls)
        ss == sizes \o Pushed(f, fileSizes)
        new == IF Len(us) > 0 THEN JobsOf(us, ss, f) ELSE <<>>
        first == Len(jobData)
    IN /\ urls' = us
       /\ sizes' = ss
       /\ jobData' = jobData \o new
       /\ jobQueue' = jobQueue \o [i \in 1..Len(new) |-> first + i]
       /\ queuedLate' = (queuedLate \/ (Len(new) > 0 /\ (drainStarted \/ closed)))

\* one callback of configFiles.forEach
ProcessFile ==
    /\ pc = "files"
    /\ fileIdx < Len(configFiles)
    /\ LET f == configFiles[fileIdx + 1]
       IN /\ fileIdx' = fileIdx + 1
          /\ CASE f.status = "ok" ->
                    /\ ProcessOptions(fileIdx + 1, f.urls, f.sizes)
                    /\ pc' = pc
               [] f.status = "missing" ->
                    /\ UNCHANGED <<urls, sizes, jobData, jobQueue, queuedLate>>
                    /\ pc' = pc
               [] OTHER ->
                    \* fs.readJsonSync throws: process.exit()
                    /\ UNCHANGED <<urls, sizes, jobData, jobQueue, queuedLate>>
                    /\ pc' = "exited"
    /\ UNCHANGED <<configFiles, cliUrls, fault, workersBusy, runs, result,
                   errorCount, drainStarted, drainReturned, closed>>
    /\ UNCHANGED <<launchFailed, captureVars, parserVars>>

\* no config file: promises.push(screenshot.processOptions(options))
ProcessCli ==
    /\ pc = "files"
    /\ Len(configFiles) = 0
    /\ ProcessOptions(0, 0, 0)
    /\ pc' = "awaitAll"
    /\ UNCHANGED <<configFiles, cliUrls, fileIdx, fault, workersBusy, runs,
                   result, errorCount, drainStarted, drainReturned, closed>>
    /\ UNCHANGED <<launchFailed, captureVars, parserVars>>

\* await Promise.all(promises): the handler is suspended
AwaitAll ==
    /\ pc = "files"
    /\ Len(configFiles) > 0
    /\ fileIdx = Len(configFiles)
    /\ pc' = "awaitAll"
    /\ UNCHANGED <<configFiles, cliUrls, fileIdx, urls, sizes, fault, jobData,
                   jobQueue, workersBusy, runs, result, errorCount,
                   drainStarted, drainReturned, closed, queuedLate>>
    /\ UNCHANGED <<launchFailed, captureVars, parserVars>>

(***************************************************************************)
(* Screenshot.end: await cluster.idle(); await cluster.close().            *)
(***************************************************************************)
\* the handler resumes and end() calls cluster.idle()
EndIdle ==
    /\ pc = "awaitAll"
    /\ pc' = "idle"
    /\ drainStarted' = TRUE
    /\ UNCHANGED <<configFiles, cliUrls, fileIdx, urls, sizes, fault, jobData,
                   jobQueue, workersBusy, runs, result, errorCount,
                   drainReturned, closed, queuedLate, launchFailed>>
    /\ UNCHANGED <<launchFailed, captureVars, parserVars>>

\* an idle() that only looks at the queue
IdleResolvesMut == jobQueue = <<>>

\* cluster.idle() resolves when the queue is empty and no worker is busy
IdleResolves == jobQueue = <<>> /\ workersBusy = {}

IdleReturn ==
    /\ pc = "idle"
    /\ IdleResolves
    /\ pc' = "close"
    /\ drainReturned' = TRUE
    /\ UNCHANGED <<configFiles, cliUrls, fileIdx, urls, sizes, fault, jobData,
                   jobQueue, workersBusy, runs, result, errorCount,
                   drainStarted, closed, queuedLate>>
    /\ UNCHANGED <<launchFailed, captureVars, parserVars>>

\* an end() that does not await idle()
CloseAfterMut == pc \in {"idle", "close"}

\* end() calls cluster.close() once the await of idle() has returned
CloseAfter == pc = "close"

Close ==
    /\ CloseAfter
    /\ ~closed
    /\ closed' = TRUE
    /\ pc' = "done"
    /\ UNCHANGED <<configFiles, cliUrls, fileIdx, urls, sizes, fault, jobData,
                   jobQueue, workersBusy, runs, result, errorCount,
                   drainStarted, drainReturned, queuedLate>>
    /\ UNCHANGED <<launchFailed, captureVars, parserVars>>

(***************************************************************************)
(* The cluster: a waiting job is given to a free worker, which runs the    *)
(* task function (getScreenshot) on it. Jobs only move while the handler   *)
(* is suspended in an await.                                               *)
(***************************************************************************)
HandlerSuspended == pc \in {"awaitAll", "idle"}

\* a pool that starts a worker for every waiting job
AllowedToStartMut == TRUE

\* a worker can take a job while fewer than maxConcurrency are busy
AllowedToStart == Cardinality(workersBusy) < maxConcurrency

StartJob ==
    /\ HandlerSuspended
    /\ ~closed
    /\ jobQueue # <<>>
    /\ AllowedToStart
    /\ LET j == Head(jobQueue)
       IN /\ jobQueue' = Tail(jobQueue)
          /\ workersBusy' = workersBusy \cup {j}
          /\ runs' = [runs EXCEPT ![j] = @ + 1]
    /\ UNCHANGED <<pc, configFiles, cliUrls, fileIdx, urls, sizes, fault,
                   jobData, result, errorCount, drainStarted, drainReturned,
                   closed, queuedLate>>
    /\ UNCHANGED <<launchFailed, captureVars, parserVars>>

\* a cluster with retryLimit 1
RequeuedMut(j) == IF runs[j] < 2 THEN <<j>> ELSE <<>>

\* the jobs put back on the queue when the task function threw on job j:
\* none, Cluster.launch sets no retryLimit
Requeued(j) == <<>>

\* a worker lost with the job it threw on
BusyAfterMut(j) == IF TaskThrows(fault[j]) THEN workersBusy ELSE workersBusy \ {j}

\* the workers still busy once the task function has returned or thrown on j
BusyAfter(j) == workersBusy \ {j}

FinishJob(j) ==
    /\ HandlerSuspended
    /\ ~closed
    /\ j \in workersBusy
    /\ workersBusy' = BusyAfter(j)
    /\ IF TaskThrows(fault[j])
       THEN /\ errorCount' = errorCount + 1
            /\ jobQueue' = jobQueue \o Requeued(j)
            /\ result' = [result EXCEPT ![j] = "failure"]
       ELSE /\ UNCHANGED <<errorCount, jobQueue>>
            /\ result' = [result EXCEPT ![j] =
                             IF TaskWritesFile(fault[j]) THEN "success" ELSE "failure"]
    /\ UNCHANGED <<pc, configFiles, cliUrls, fileIdx, urls, sizes, fault,
                   jobData, runs, drainStarted, drainReturned, closed,
                   queuedLate>>
    /\ UNCHANGED <<launchFailed, captureVars, parserVars>>

Next ==
    \/ LaunchOk
    \/ LaunchFails
    \/ ProcessFile
    \/ ProcessCli
    \/ AwaitAll
    \/ EndIdle
    \/ IdleReturn
    \/ Close
    \/ StartJob
    \/ \E j \in JobIds : FinishJob(j)

Spec == Init /\ [][Next]_vars

(***************************************************************************)
(* One job: getScreenshot(page, url) and getFullPageScreenshot.            *)
(***************************************************************************)
\* the pool variables while one job is the subject
PoolOff ==
    /\ pc = "off"
    /\ configFiles = <<>>
    /\ cliUrls = 0
    /\ fileIdx = 0
    /\ urls = <<>>
    /\ sizes = <<>>
    /\ fault = [j \in JobIds |-> "none"]
    /\ jobData = <<>>
    /\ jobQueue = <<>>
    /\ workersBusy = {}
    /\ runs = [j \in JobIds |-> 0]
    /\ result = [j \in JobIds |-> "none"]
    /\ errorCount = 0
    /\ drainStarted = FALSE
    /\ drainReturned = FALSE
    /\ closed = FALSE
    /\ queuedLate = FALSE
    /\ launchFailed = FALSE

Heights == 1..MaxHeight

\* a clip rectangle as #setClip stores it: x, y >= 0 and w, h > 0
SomeClip == [x |-> 0, y |-> 1, width |-> 1, height |-> 2]

\* `if (url.clip)`: clip is false or a rectangle
HasClip(u) == u.clip # NoClip

(***************************************************************************)
(* ConfigParser: the options of a job and the descriptor parsed from them. *)
(* A BoolLike option is "true", "false" or "unset"; a number option is 0   *)
(* when it is not given; a selector option is TRUE when a list of          *)
(* selectors is given.                                                     *)
(***************************************************************************)
\* export const maxDelay = 30000
maxDelay == 30000

\* defaultConfig; it has no hideSelector and no hideStitchSelector key
\* (dir and waitUntil are not followed)
defaultConfig ==
    [baseUrl |-> <<>>, clip |-> NoClip, delay |-> 0, deviceScaleFactor |-> 1,
     fileName |-> NoName, fileType |-> "jpeg", fullScreen |-> TRUE,
     height |-> 900,
     nameFormat |-> [text |-> "{urlNoWww}-{width}", pattern |-> TRUE, ext |-> ""],
     quality |-> 100, scrollDelay |-> 400, sizes |-> <<>>, stitchThreshold |-> 16000,
     urls |-> <<>>, width |-> 1300, hideSelector |-> FALSE,
     hideStitchSelector |-> FALSE]

\* isTrueLike / isBoolLike of lib/types
isTrueLike(thing) == thing = "true"
isBoolLike(thing) == thing \in {"true", "false"}

\* type.toLowerCase().replace('.', '') for the type names followed
LowerNoDot(type) ==
    CASE type \in {"png", "PNG", ".png"} -> "png"
      [] type \in {"jpg", "JPG", ".jpg"} -> "jpg"
      [] type \in {"jpeg", ".jpeg"} -> "jpeg"
      [] type \in {"webp", ".webp"} -> "webp"
      [] type \in {"gif", ".gif"} -> "gif"
      [] OTHER -> type

\* validateFileType: jpg, jpeg, png, webp are valid, jpg is stored as jpeg;
\* "" stands for the `false` it returns otherwise
validateFileType(type) ==
    IF LowerNoDot(type) \in {"jpg", "jpeg"} THEN "jpeg"
    ELSE IF LowerNoDot(type) \in {"png", "webp"} THEN LowerNoDot(type)
    ELSE ""

\* #setBaseUrl (the base option; baseUrl is its other name), with
\* base.replace(/\/$/, ''): without its last character when that is a '/'
setBaseUrl(config, p) ==
    IF isStringWithValue(p.base)
    THEN [config EXCEPT !.baseUrl =
             IF p.base.s[Len(p.base.s)] = "/"
             THEN SubSeq(p.base.s, 1, Len(p.base.s) - 1)
             ELSE p.base.s]
    ELSE config

\* #setClip, for a clip object whose x, y, w, h are valid
setClip(config, p) ==
    IF p.clip # NoClip THEN [config EXCEPT !.clip = p.clip] ELSE config

\* #setDelay
setDelay(config, p) ==
    IF isNumberOrNumberString(p.delay)
    THEN LET delay == ParseIntOf(p.delay)
         IN IF Positive(delay)
            THEN [config EXCEPT !.delay = Min(delay.n, maxDelay)]
            ELSE config
    ELSE config

\* #setDeviceScaleFactor
setDeviceScaleFactor(config, p) ==
    IF isNumberOrNumberString(p.pixelRatio) /\ Positive(ParseIntOf(p.pixelRatio))
    THEN [config EXCEPT !.deviceScaleFactor = ParseIntOf(p.pixelRatio).n]
    ELSE config

\* #setFileName: a name with placeholders is the new nameFormat; another
\* name is the fileName, and its extension, when valid, the fileType
setFileName(config, p) ==
    IF p.name # NoName
    THEN IF p.name.pattern
         THEN [config EXCEPT !.nameFormat = p.name]
         ELSE IF validateFileType(p.name.ext) # ""
         THEN [config EXCEPT !.fileName = p.name,
                             !.fileType = validateFileType(p.name.ext)]
         ELSE [config EXCEPT !.fileName = p.name]
    ELSE config

\* #setFileType, for the type option (the jpg, png and webp flags are not
\* among the options followed)
setFileType(config, p) ==
    IF validateFileType(p.type) # ""
    THEN [config EXCEPT !.fileType = validateFileType(p.type)]
    ELSE config

\* #setFullScreen: the first BoolLike option of fit, fullScreen is the value
\* stored as config.fullScreen
setFullScreen(config, p) ==
    IF isBoolLike(p.fit) \/ isBoolLike(p.fullScreen)
    THEN LET fullScreen == IF isBoolLike(p.fit) THEN p.fit ELSE p.fullScreen
         IN [config EXCEPT !.fullScreen = isTrueLike(fullScreen)]
    ELSE config

\* #setHeight, #setWidth, #setStitchThreshold
setHeight(config, p) ==
    IF processHeightWidth(p.height) > 0
    THEN [config EXCEPT !.height = processHeightWidth(p.height)]
    ELSE config

setWidth(config, p) ==
    IF processHeightWidth(p.width) > 0
    THEN [config EXCEPT !.width = processHeightWidth(p.width)]
    ELSE config

setStitchThreshold(config, p) ==
    IF processHeightWidth(p.stitchThreshold) > 0
    THEN [config EXCEPT !.stitchThreshold = processHeightWidth(p.stitchThreshold)]
    ELSE config

\* #setHideStitchElement
setHideStitchElement(config, p) ==
    IF p.hideStitchSelector THEN [config EXCEPT !.hideStitchSelector = TRUE]
    ELSE config

\* #setQuality
setQuality(config, p) ==
    IF /\ isNumberOrNumberString(p.quality)
       /\ Positive(ParseIntOf(p.quality))
       /\ ParseIntOf(p.quality).n <= 100
    THEN [config EXCEPT !.quality = ParseIntOf(p.quality).n]
    ELSE config

\* #setScrollDelay
setScrollDelay(config, p) ==
    IF isNumberOrNumberString(p.scrollDelay) /\ Positive(ParseIntOf(p.scrollDelay))
    THEN [config EXCEPT !.scrollDelay = ParseIntOf(p.scrollDelay).n]
    ELSE config

\* an entry of a urls or sizes list that is an object
Obj(o) == [t |-> "object", o |-> o]

\* #configureUrl: an object with a url, or a string, is pushed on config.urls
configureUrl(list, entry) ==
    IF entry.t = "object" /\ isStringWithValue(entry.o.url) THEN Append(list, entry)
    ELSE IF isStringWithValue(entry)
    THEN Append(list, Obj([NoParam EXCEPT !.url = entry]))
    ELSE list

\* `if (this.processUrls) this.#setUrls()`, for a list of URLs
RECURSIVE ConfigureUrls(_, _)
ConfigureUrls(list, entries) ==
    IF entries = <<>> THEN list
    ELSE ConfigureUrls(configureUrl(list, Head(entries)), Tail(entries))

setUrls(config, p, processUrls) ==
    IF processUrls
    THEN [config EXCEPT !.urls = ConfigureUrls(config.urls, p.urls)]
    ELSE config

\* size.split('x')
RECURSIVE Split(_)
Split(s) ==
    IF \E i \in 1..Len(s) : s[i] = "x"
    THEN LET i == CHOOSE k \in 1..Len(s) :
                     s[k] = "x" /\ \A j \in 1..(k - 1) : s[j] # "x"
         IN <<SubSeq(s, 1, i - 1)>> \o Split(SubSeq(s, i + 1, Len(s)))
    ELSE <<s>>

\* a size list that takes a width and height that are not positive
SizeAcceptedMut(width, height) == ~width.nan /\ ~height.nan

\* `if (width > 0 && height > 0)` of #configureViewportSize
SizeAccepted(width, height) == Positive(width) /\ Positive(height)

\* #configureViewportSize: a string WIDTHxHEIGHT gives a new size object,
\* an object with a width and a height is pushed as it is
configureViewportSize(list, size) ==
    IF isStringWithValue(size)
    THEN LET parts == Split(size.s)
         IN IF Len(parts) = 2 /\ SizeAccepted(parseInt(parts[1]), parseInt(parts[2]))
            THEN Append(list, Obj([NoParam EXCEPT
                                     !.height = Num(parseInt(parts[2]).n),
                                     !.width = Num(parseInt(parts[1]).n)]))
            ELSE list
    ELSE IF /\ size.t = "object"
            /\ isNumberOrNumberString(size.o.width)
            /\ isNumberOrNumberString(size.o.height)
            /\ SizeAccepted(ParseIntOf(size.o.width), ParseIntOf(size.o.height))
    THEN Append(list, size)
    ELSE list

\* `if (this.processSizes) this.#setViewportSizes()` / #processViewportSizes,
\* for a list of sizes
RECURSIVE ConfigureSizes(_, _)
ConfigureSizes(list, entries) ==
    IF entries = <<>> THEN list
    ELSE ConfigureSizes(configureViewportSize(list, Head(entries)), Tail(entries))

setViewportSizes(config, p, processSizes) ==
    IF processSizes
    THEN [config EXCEPT !.sizes = ConfigureSizes(config.sizes, p.sizes)]
    ELSE config

\* #parseConfig: the setters in the order of the code. No setter reads the
\* hideSelector option.
parseConfig(config, p, processUrls, processSizes) ==
    setWidth(
     setViewportSizes(
      setUrls(
       setStitchThreshold(
        setScrollDelay(
         setQuality(
          setHideStitchElement(
           setHeight(
            setFullScreen(
             setFileType(
              setFileName(
               setDeviceScaleFactor(
                setDelay(
                 setClip(
                  setBaseUrl(config, p), p), p), p), p), p), p), p), p), p),
          p), p), p, processUrls), p, processSizes), p)

\* the descriptor getScreenshot gets in a run whose options are p
Descriptor(p) == parseConfig(defaultConfig, p, FALSE, FALSE)

\* The options of the jobs followed: every combination of clip, full
\* screen, viewport height, pixel ratio, delay and hideStitchSelector ...
CaptureOptions ==
    {[NoParam EXCEPT !.clip = c, !.fullScreen = f, !.height = Num(h),
                     !.width = Num(1), !.pixelRatio = Num(r),
                     !.stitchThreshold = Num(4), !.delay = d,
                     !.hideStitchSelector = s] :
        c \in {NoClip, SomeClip}, f \in {"true", "false"}, h \in {2, 3},
        r \in {1, 2}, d \in {Undefined, Num(1)}, s \in BOOLEAN}

\* ... the --fit flag, which commander passes as fit: true next to the
\* default fullScreen: true ...
FitOptions ==
    {[NoParam EXCEPT !.fit = "true", !.fullScreen = "true", !.height = Num(h),
                     !.width = Num(1), !.pixelRatio = Num(1),
                     !.stitchThreshold = Num(4)] : h \in {2, 3}}

\* ... --hideSelector with a list of selectors ...
HideOptions ==
    {[NoParam EXCEPT !.fullScreen = f, !.height = Num(2), !.width = Num(1),
                     !.pixelRatio = Num(1), !.stitchThreshold = Num(4),
                     !.delay = d, !.hideSelector = TRUE] :
        f \in {"true", "false"}, d \in {Undefined, Num(1)}}

\* ... and --type.
TypeOptions ==
    {[NoParam EXCEPT !.fullScreen = f, !.height = Num(2), !.width = Num(1),
                     !.pixelRatio = Num(1), !.stitchThreshold = Num(4),
                     !.type = t] :
        f \in {"true", "false"}, t \in {"jpg", "png", "webp"}}

Params == CaptureOptions \cup FitOptions \cup HideOptions \cup TypeOptions

Descriptors == {Descriptor(p) : p \in Params}

InitCapture ==
    /\ PoolOff
    /\ ParserOff
    /\ cpc = "start"
    /\ configParam \in Params
    /\ url = Descriptor(configParam)
    /\ docHeight = 0
    /\ scrollY = 0
    /\ index = 0
    /\ lastHeight = 0
    /\ sameHeightCount = 0
    /\ pageSizeInfo = NoInfo
    /\ fullHeight = -1
    /\ shots = <<>>
    /\ loopScrolls = 0
    /\ stitchHides = 0
    /\ stitched = FALSE
    /\ log = <<>>
    /\ fileWritten = FALSE
    /\ image = NoImage
    /\ threw = FALSE
    /\ failed = ""

\* ---- the page ----------------------------------------------------------
\* window.innerHeight is the viewport height set by page.setViewport
innerHeight == url.height

\* the largest scroll position of a document of height h
ScrollMax(h) == Max(0, h - innerHeight)

\* a scroll that is not clamped at the end of the document
ScrollDownMut(y, h) == y + innerHeight

\* window.scrollBy({ top: window.innerHeight }) from position y: the browser
\* clamps the position at the end of the document
ScrollDown(y, h) == Min(y + innerHeight, ScrollMax(h))

CeilDiv(a, b) == (a + b - 1) \div b

\* getPageSizeInfo: what it returns for a document of height h
GetPageSizeInfo(h) ==
    [pages |-> CeilDiv(h, innerHeight),
     extraHeight |-> (h % innerHeight) * url.deviceScaleFactor,
     pageHeight |-> h,
     viewport |-> [height |-> innerHeight * url.deviceScaleFactor,
                   width |-> url.width * url.deviceScaleFactor]]

\* ---- getScreenshot -----------------------------------------------------
\* the screenshotConfig getScreenshot builds
\* a getScreenshot that leaves fullPage alone when a clip is set
ClipOverrideMut(u) == FALSE

ClipOverride(u) == HasClip(u)

ScreenshotConfig(u) ==
    [fullPage |-> IF ClipOverride(u) THEN FALSE ELSE u.fullScreen,
     clip |-> IF HasClip(u) THEN u.clip ELSE NoClip,
     path |-> TRUE,
     captureBeyondViewport |-> TRUE]

\* the screenshotConf of a segment: no path, no fullPage
SegmentConfig(u) ==
    [fullPage |-> FALSE,
     clip |-> NoClip,
     path |-> FALSE,
     captureBeyondViewport |-> FALSE]

\* a page.screenshot call: its options and the scroll position it saw
Shot(cfg) == [cfg |-> cfg, top |-> scrollY]

\* ---- images -------------------------------------------------------------
\* An image is a list of parts, each a run of pixel rows of the document
\* (in device pixels, from the row `from` on), with its encoding.
\* the rows page.screenshot captures of the viewport scrolled to `top`
ViewportImage(top) ==
    [from |-> top * url.deviceScaleFactor,
     height |-> innerHeight * url.deviceScaleFactor]

\* the rows page.screenshot captures with a clip rectangle
ClipImage(clip) ==
    [from |-> clip.y * url.deviceScaleFactor,
     height |-> clip.height * url.deviceScaleFactor]

\* the rows page.screenshot captures with fullPage: true
FullPageImage(h) == [from |-> 0, height |-> h * url.deviceScaleFactor]

RECURSIVE TotalHeight(_)
TotalHeight(imgs) ==
    IF imgs = <<>> THEN 0 ELSE Head(imgs).height + TotalHeight(Tail(imgs))

\* the file page.screenshot or fs.writeFileSync leaves at url.path
Encoded(type, parts) ==
    [type |-> type, height |-> TotalHeight(parts), parts |-> parts]

\* ---- stitchImages -------------------------------------------------------
\* a resize that keeps the top rows of the image
ResizeTopMut(img, h) == img.from

\* img.resize({ height, width, position: 'bottom' }) on an image of that
\* width: the rows kept are the last h ones
ResizeTop(img, h) == img.from + img.height - h

Resize(img, h) == [from |-> ResizeTop(img, h), height |-> h]

\* `index === numBuffers - 1 && extraHeight > 0`
IsCropped(i, numBuffers, extraHeight) == i = numBuffers /\ extraHeight > 0

\* the images composited, top to bottom
SharpImages(scrBuffers, extraHeight) ==
    [i \in 1..Len(scrBuffers) |->
        IF IsCropped(i, Len(scrBuffers), extraHeight)
        THEN Resize(scrBuffers[i], extraHeight)
        ELSE scrBuffers[i]]

\* `.composite(composites).png().toBuffer()`
StitchedType == "png"

stitchImages(scrBuffers, extraHeight) ==
    Encoded(StitchedType, SharpImages(scrBuffers, extraHeight))

\* sectionScreenshots: the buffers of the page.screenshot calls of the
\* segment loop
SectionScreenshots == [i \in 1..Len(shots) |-> ViewportImage(shots[i].top)]

\* an awaited call outside the try block rejects: getScreenshot throws
Throws(step) ==
    /\ cpc' = "done"
    /\ threw' = TRUE
    /\ failed' = step
    /\ UNCHANGED <<configParam, url, docHeight, scrollY, index, lastHeight, sameHeightCount,
                   pageSizeInfo, fullHeight, shots, loopScrolls, stitchHides,
                   stitched, log, fileWritten, image>>

SetViewport ==
    /\ cpc = "start"
    /\ cpc' = "goto"
    /\ UNCHANGED <<configParam, url, docHeight, scrollY, index, lastHeight, sameHeightCount,
                   pageSizeInfo, fullHeight, shots, loopScrolls, stitchHides,
                   stitched, log, fileWritten, image, threw, failed>>
    /\ UNCHANGED <<poolVars, parserVars>>

SetViewportFails ==
    /\ cpc = "start"
    /\ Throws("viewport")
    /\ UNCHANGED <<poolVars, parserVars>>

\* page.goto resolves: the page is loaded with some height
Goto ==
    /\ cpc = "goto"
    /\ cpc' = "delay"
    /\ docHeight' \in Heights
    /\ scrollY' = 0
    /\ UNCHANGED <<configParam, url, index, lastHeight, sameHeightCount, pageSizeInfo,
                   fullHeight, shots, loopScrolls, stitchHides, stitched, log,
                   fileWritten, image, threw, failed>>
    /\ UNCHANGED <<poolVars, parserVars>>

GotoFails ==
    /\ cpc = "goto"
    /\ Throws("nav")
    /\ UNCHANGED <<poolVars, parserVars>>

\* if (url.delay > 0) await setTimeout(url.delay): the page may change
Delay ==
    /\ cpc = "delay"
    /\ cpc' = "hide"
    /\ IF url.delay > 0 THEN docHeight' \in Heights ELSE docHeight' = docHeight
    /\ UNCHANGED <<configParam, url, scrollY, index, lastHeight, sameHeightCount,
                   pageSizeInfo, fullHeight, shots, loopScrolls, stitchHides,
                   stitched, log, fileWritten, image, threw, failed>>
    /\ UNCHANGED <<poolVars, parserVars>>

\* if (Array.isArray(url.hideSelector)) await hideElements(...)
Hide ==
    /\ cpc = "hide"
    /\ \/ /\ cpc' = "shot"
          /\ UNCHANGED <<configParam, url, docHeight, scrollY, index, lastHeight,
                         sameHeightCount, pageSizeInfo, fullHeight, shots,
                         loopScrolls, stitchHides, stitched, log, fileWritten, image,
                         threw, failed>>
       \/ /\ url.hideSelector
          /\ Throws("hide")
    /\ UNCHANGED <<poolVars, parserVars>>

\* the try block, not full page: await page.screenshot(screenshotConfig)
CaptureDirect ==
    /\ cpc = "shot"
    /\ ~ScreenshotConfig(url).fullPage
    /\ shots' = Append(shots, Shot(ScreenshotConfig(url)))
    /\ fileWritten' = TRUE
    /\ image' = Encoded(url.fileType,
                        <<IF HasClip(url) THEN ClipImage(url.clip)
                          ELSE ViewportImage(scrollY)>>)
    /\ log' = Append(log, "saved")
    /\ cpc' = "done"
    /\ UNCHANGED <<configParam, url, docHeight, scrollY, index, lastHeight,
                   sameHeightCount, pageSizeInfo, fullHeight, loopScrolls,
                   stitchHides, stitched, threw, failed>>
    /\ UNCHANGED <<poolVars, parserVars>>

\* page.screenshot rejects: caught by getScreenshot's catch, logError
CaptureDirectFails ==
    /\ cpc = "shot"
    /\ ~ScreenshotConfig(url).fullPage
    /\ shots' = Append(shots, Shot(ScreenshotConfig(url)))
    /\ log' = Append(log, "error")
    /\ failed' = "capture"
    /\ cpc' = "done"
    /\ UNCHANGED <<configParam, url, docHeight, scrollY, index, lastHeight, sameHeightCount,
                   pageSizeInfo, fullHeight, loopScrolls, stitchHides, stitched,
                   fileWritten, image, threw>>
    /\ UNCHANGED <<poolVars, parserVars>>

\* ---- getFullPageScreenshot ---------------------------------------------
\* if (screenshotConfig.fullPage): the first getPageSizeInfo
FullPageStart ==
    /\ cpc = "shot"
    /\ ScreenshotConfig(url).fullPage
    /\ scrollY' = 0
    /\ pageSizeInfo' = GetPageSizeInfo(docHeight)
    /\ lastHeight' = GetPageSizeInfo(docHeight).viewport.height
    /\ sameHeightCount' = 0
    /\ index' = 0
    /\ cpc' = "loop"
    /\ UNCHANGED <<configParam, url, docHeight, fullHeight, shots, loopScrolls, stitchHides,
                   stitched, log, fileWritten, image, threw, failed>>
    /\ UNCHANGED <<poolVars, parserVars>>

\* `if (sameHeightCount >= 3) break`
Stable(count) == count >= 3

\* One iteration of the scroll loop: scrollDown, setTimeout(url.scrollDelay)
\* during which the page may take any height, getPageHeight, the comparison.
\* a loop without the cap
LoopGoesOnMut(i) == TRUE

\* `index < maxScrollLoops`, the condition of the for loop
LoopGoesOn(i) == i < maxScrollLoops

ScrollLoop ==
    /\ cpc = "loop"
    /\ LoopGoesOn(index)
    /\ \E newHeight \in Heights :
         LET count == IF newHeight = lastHeight THEN sameHeightCount + 1 ELSE 0
         IN /\ docHeight' = newHeight
            /\ scrollY' = Min(ScrollDown(scrollY, docHeight), ScrollMax(newHeight))
            /\ loopScrolls' = loopScrolls + 1
            /\ sameHeightCount' = count
            /\ IF Stable(count)
               THEN /\ cpc' = "final"
                    /\ UNCHANGED <<lastHeight, index>>
               ELSE /\ lastHeight' = newHeight
                    /\ index' = index + 1
                    /\ cpc' = IF LoopGoesOn(index + 1) THEN "loop" ELSE "final"
    /\ UNCHANGED <<configParam, url, pageSizeInfo, fullHeight, shots, stitchHides, stitched,
                   log, fileWritten, image, threw, failed>>
    /\ UNCHANGED <<poolVars, parserVars>>

\* the final getPageSizeInfo, which scrolls to the top and measures
FinalInfo ==
    /\ cpc = "final"
    /\ scrollY' = 0
    /\ pageSizeInfo' = GetPageSizeInfo(docHeight)
    /\ cpc' = "decide"
    /\ UNCHANGED <<configParam, url, docHeight, index, lastHeight, sameHeightCount,
                   fullHeight, shots, loopScrolls, stitchHides, stitched, log,
                   fileWritten, image, threw, failed>>
    /\ UNCHANGED <<poolVars, parserVars>>

\* a strict comparison with the threshold
NativeMut(h, threshold) == h < threshold

\* `if (fullHeight <= stitchThreshold)`
Native(h, threshold) == h <= threshold

\* scrollTo top, setTimeout(100) during which the page may still change,
\* then fullHeight = getPageHeight and the choice of the capture mode
Decide ==
    /\ cpc = "decide"
    /\ \E h \in Heights :
         /\ docHeight' = h
         /\ fullHeight' = h
         /\ cpc' = IF Native(h, url.stitchThreshold) THEN "native" ELSE "segments"
    /\ scrollY' = 0
    /\ index' = 0
    /\ UNCHANGED <<configParam, url, lastHeight, sameHeightCount, pageSizeInfo, shots,
                   loopScrolls, stitchHides, stitched, log, fileWritten, image, threw,
                   failed>>
    /\ UNCHANGED <<poolVars, parserVars>>

\* await page.screenshot(screenshotConfig) with fullPage: true, then back in
\* getScreenshot: logSuccess
NativeShot ==
    /\ cpc = "native"
    /\ shots' = Append(shots, Shot(ScreenshotConfig(url)))
    /\ fileWritten' = TRUE
    /\ image' = Encoded(url.fileType, <<FullPageImage(docHeight)>>)
    /\ log' = Append(log, "saved")
    /\ cpc' = "done"
    /\ UNCHANGED <<configParam, url, docHeight, scrollY, index, lastHeight, sameHeightCount,
                   pageSizeInfo, fullHeight, loopScrolls, stitchHides, stitched,
                   threw, failed>>
    /\ UNCHANGED <<poolVars, parserVars>>

\* What getScreenshot logs after getFullPageScreenshot caught an error: the
\* catch logs the error and returns, then logSuccess(`Saved ...`) runs.
AfterFullPageError == <<"error", "saved">>

FullPageCatch(step) ==
    /\ log' = log \o AfterFullPageError
    /\ failed' = step
    /\ cpc' = "done"

NativeShotFails ==
    /\ cpc = "native"
    /\ shots' = Append(shots, Shot(ScreenshotConfig(url)))
    /\ FullPageCatch("capture")
    /\ UNCHANGED <<configParam, url, docHeight, scrollY, index, lastHeight, sameHeightCount,
                   pageSizeInfo, fullHeight, loopScrolls, stitchHides, stitched,
                   fileWritten, image, threw>>
    /\ UNCHANGED <<poolVars, parserVars>>

\* a page.evaluate of the stabilization (getPageSizeInfo, scrollDown,
\* getPageHeight, scrollTo) rejects
StabilizationFails ==
    /\ \/ cpc \in {"loop", "final", "decide"}
       \/ cpc = "shot" /\ ScreenshotConfig(url).fullPage
    /\ FullPageCatch("stabilization")
    /\ UNCHANGED <<configParam, url, docHeight, scrollY, index, lastHeight, sameHeightCount,
                   pageSizeInfo, fullHeight, shots, loopScrolls, stitchHides,
                   stitched, fileWritten, image, threw>>
    /\ UNCHANGED <<poolVars, parserVars>>

\* One iteration of the segment loop: hideElements when index > 0 and
\* url.hideStitchSelector is an array, setTimeout(100), page.screenshot of
\* the viewport, scrollDown. The page keeps its height while the segments
\* are taken.
\* a loop that hides the elements before the first segment too
HidesStitchMut(i) == url.hideStitchSelector

HidesStitch(i) == i > 0 /\ url.hideStitchSelector

Segment ==
    /\ cpc = "segments"
    /\ index < pageSizeInfo.pages
    /\ stitchHides' = IF HidesStitch(index) THEN stitchHides + 1 ELSE stitchHides
    /\ shots' = Append(shots, Shot(SegmentConfig(url)))
    /\ scrollY' = ScrollDown(scrollY, docHeight)
    /\ index' = index + 1
    /\ cpc' = IF index + 1 < pageSizeInfo.pages THEN "segments" ELSE "stitch"
    /\ UNCHANGED <<configParam, url, docHeight, lastHeight, sameHeightCount, pageSizeInfo,
                   fullHeight, loopScrolls, stitched, log, fileWritten, image, threw,
                   failed>>
    /\ UNCHANGED <<poolVars, parserVars>>

\* the page.screenshot of a segment rejects
SegmentFails ==
    /\ cpc = "segments"
    /\ index < pageSizeInfo.pages
    /\ stitchHides' = IF HidesStitch(index) THEN stitchHides + 1 ELSE stitchHides
    /\ shots' = Append(shots, Shot(SegmentConfig(url)))
    /\ FullPageCatch("capture")
    /\ UNCHANGED <<configParam, url, docHeight, scrollY, index, lastHeight, sameHeightCount,
                   pageSizeInfo, fullHeight, loopScrolls, stitched, fileWritten, image,
                   threw>>
    /\ UNCHANGED <<poolVars, parserVars>>

\* hideElements(page, url.hideStitchSelector) rejects (a page.evaluate of
\* it rejects, as on a selector querySelectorAll does not accept)
SegmentHideFails ==
    /\ cpc = "segments"
    /\ index < pageSizeInfo.pages
    /\ HidesStitch(index)
    /\ stitchHides' = stitchHides + 1
    /\ FullPageCatch("hide")
    /\ UNCHANGED <<configParam, url, docHeight, scrollY, index, lastHeight,
                   sameHeightCount, pageSizeInfo, fullHeight, shots,
                   loopScrolls, stitched, fileWritten, image, threw>>
    /\ UNCHANGED <<poolVars, parserVars>>

\* stitchImages, fs.writeFileSync(path, stitchedScreenshot), logSuccess
Stitch ==
    /\ cpc = "stitch"
    /\ stitched' = TRUE
    /\ fileWritten' = TRUE
    /\ image' = stitchImages(SectionScreenshots, pageSizeInfo.extraHeight)
    /\ log' = Append(log, "saved")
    /\ cpc' = "done"
    /\ UNCHANGED <<configParam, url, docHeight, scrollY, index, lastHeight, sameHeightCount,
                   pageSizeInfo, fullHeight, shots, loopScrolls, stitchHides,
                   threw, failed>>
    /\ UNCHANGED <<poolVars, parserVars>>

\* sharp rejects inside stitchImages
StitchFails ==
    /\ cpc = "stitch"
    /\ stitched' = TRUE
    /\ FullPageCatch("stitch")
    /\ UNCHANGED <<configParam, url, docHeight, scrollY, index, lastHeight, sameHeightCount,
                   pageSizeInfo, fullHeight, shots, loopScrolls, stitchHides,
                   fileWritten, image, threw>>
    /\ UNCHANGED <<poolVars, parserVars>>

\* fs.writeFileSync throws
WriteFails ==
    /\ cpc = "stitch"
    /\ stitched' = TRUE
    /\ FullPageCatch("write")
    /\ UNCHANGED <<configParam, url, docHeight, scrollY, index, lastHeight, sameHeightCount,
                   pageSizeInfo, fullHeight, shots, loopScrolls, stitchHides,
                   fileWritten, image, threw>>
    /\ UNCHANGED <<poolVars, parserVars>>

NextCapture ==
    \/ SetViewport
    \/ SetViewportFails
    \/ Goto
    \/ GotoFails
    \/ Delay
    \/ Hide
    \/ CaptureDirect
    \/ CaptureDirectFails
    \/ FullPageStart
    \/ ScrollLoop
    \/ FinalInfo
    \/ Decide
    \/ NativeShot
    \/ NativeShotFails
    \/ StabilizationFails
    \/ Segment
    \/ SegmentFails
    \/ SegmentHideFails
    \/ Stitch
    \/ StitchFails
    \/ WriteFails

SpecCapture == InitCapture /\ [][NextCapture]_vars

(***************************************************************************)
(* The configuration pipeline: one processOptions call, from the options   *)
(* typed on the command line and the content of a JSON config file to the  *)
(* descriptors given to cluster.queue.                                     *)
(***************************************************************************)
\* the options object commander gives to the action handler: the typed
\* options and, for an option not typed, the default of its .option() call
Commander(typed) ==
    [typed EXCEPT
        !.fullScreen = IF @ = "unset" THEN "true" ELSE @,
        !.height = IF @ = Undefined THEN Str(<<"9", "0", "0">>) ELSE @,
        !.quality = IF @ = Undefined THEN Str(<<"1", "0", "0">>) ELSE @,
        !.scrollDelay = IF @ = Undefined THEN Str(<<"4", "0", "0">>) ELSE @,
        !.stitchThreshold =
            IF @ = Undefined THEN Str(<<"1", "6", "0", "0", "0">>) ELSE @,
        !.type = IF @ = "" THEN "jpg" ELSE @,
        !.width = IF @ = Undefined THEN Str(<<"1", "3", "0", "0">>) ELSE @]

\* `delete object.key`
Without(object, key) == [k \in DOMAIN object \ {key} |-> object[k]]

\* url.match(/^http(s?):\/\//) !== null
HasScheme(s) == s # <<>> /\ s[1] \in {"http://", "https://"}

\* url.substring(0, base.length) === base
StartsWith(s, prefix) ==
    Len(s) >= Len(prefix) /\ SubSeq(s, 1, Len(prefix)) = prefix

\* getUrlPath: the file name is the explicit file name, else the name
\* format with its placeholders filled in; it keeps its own extension when
\* that is jpg, jpeg, png or webp and gets the file type as extension
\* otherwise. The path is followed as the name, the values filling a
\* pattern, and the extension the path ends with.
getUrlPathOf(u) ==
    LET filename == IF u.fileName # NoName THEN u.fileName
                    ELSE IF u.nameFormat # NoName THEN u.nameFormat
                    ELSE [text |-> "{url}", pattern |-> TRUE, ext |-> ""]
        ext == LowerNoDot(filename.ext)
    IN [name |-> filename.text,
        of |-> IF filename.pattern THEN <<u.url, u.width>> ELSE <<>>,
        ext |-> IF ext \in {"jpg", "jpeg", "png", "webp"} THEN ext
                ELSE u.fileType]

\* the urlData of setupUrl before its path is set: the URL is joined to
\* the base URL when it has no scheme and does not start with the base,
\* and gets https:// before it when it then has no scheme
UrlDataOf(urlConfig, s) ==
    LET baseUrl == urlConfig.baseUrl
        joined == IF baseUrl # <<>> /\ ~StartsWith(s, baseUrl) /\ ~HasScheme(s)
                  THEN baseUrl \o (IF s[1] = "/" THEN s ELSE <<"/">> \o s)
                  ELSE s
    IN ("url" :> (IF HasScheme(joined) THEN joined ELSE <<"https://">> \o joined))
       @@ urlConfig

\* `urlData.path = getUrlPath(urlData)`
WithPath(urlData) == ("path" :> getUrlPathOf(urlData)) @@ urlData

\* setupUrl(url, config): the entry parsed over a copy of the config,
\* without the urls, with the resolved URL and the path
setupUrl(entry, config) ==
    WithPath(UrlDataOf(Without(parseConfig(config, entry.o, FALSE, FALSE), "urls"),
                       entry.o.url.s))

\* the sizeData of one size of getScreenshots
SizeData(size, urlData) ==
    WithPath(("url" :> urlData.url)
             @@ Without(Without(parseConfig(urlData, size.o, FALSE, FALSE),
                                "sizes"), "urls"))

\* processOptions, first half: the config file is parsed when there is one
\* (isObjectWithValues(configFileOptions); NoParam stands for undefined)
ParseFileOptions ==
    /\ ppc = "start"
    /\ configFileOptions # NoParam
    /\ parserConfig' = parseConfig(parserConfig, configFileOptions, TRUE, TRUE)
    /\ ppc' = "options"
    /\ UNCHANGED <<args, configFileOptions, urlObject, urlIdx, sizeIdx, queued>>
    /\ UNCHANGED <<poolVars, captureVars>>

\* processOptions, second half: the command line options are parsed, and
\* getScreenshots is called when there are URLs
ParseOptions ==
    /\ \/ ppc = "options"
       \/ ppc = "start" /\ configFileOptions = NoParam
    /\ parserConfig' = parseConfig(parserConfig, Commander(args), TRUE, TRUE)
    /\ ppc' = IF Len(parserConfig'.urls) > 0 THEN "urls" ELSE "done"
    /\ UNCHANGED <<args, configFileOptions, urlObject, urlIdx, sizeIdx, queued>>
    /\ UNCHANGED <<poolVars, captureVars>>

\* getScreenshots: the next URL is set up, and queued when it has no sizes
QueueUrl ==
    /\ ppc = "urls"
    /\ urlIdx < Len(parserConfig.urls)
    /\ urlObject' = setupUrl(parserConfig.urls[urlIdx + 1], parserConfig)
    /\ urlIdx' = urlIdx + 1
    /\ sizeIdx' = 0
    /\ IF Len(urlObject'.sizes) > 0
       THEN ppc' = "sizes" /\ queued' = queued
       ELSE ppc' = "urls" /\ queued' = Append(queued, urlObject')
    /\ UNCHANGED <<args, configFileOptions, parserConfig>>
    /\ UNCHANGED <<poolVars, captureVars>>

\* getScreenshots: the next size of the URL is queued
QueueSize ==
    /\ ppc = "sizes"
    /\ sizeIdx < Len(urlObject.sizes)
    /\ queued' = Append(queued, SizeData(urlObject.sizes[sizeIdx + 1], urlObject))
    /\ sizeIdx' = sizeIdx + 1
    /\ ppc' = IF sizeIdx' = Len(urlObject.sizes) THEN "urls" ELSE "sizes"
    /\ UNCHANGED <<args, configFileOptions, parserConfig, urlObject, urlIdx>>
    /\ UNCHANGED <<poolVars, captureVars>>

\* getScreenshots returns after the last URL
QueueEnd ==
    /\ ppc = "urls"
    /\ urlIdx = Len(parserConfig.urls)
    /\ ppc' = "done"
    /\ UNCHANGED <<args, configFileOptions, parserConfig, urlObject, urlIdx,
                   sizeIdx, queued>>
    /\ UNCHANGED <<poolVars, captureVars>>

(***************************************************************************)
(* The runs followed: what the config file holds and what is typed.        *)
(***************************************************************************)
\* (a URL or base URL is the sequence of its pieces: the scheme, a host, a '/')
\* delay values of every kind #setDelay tells apart
DelayInputs ==
    {Undefined, Num(0), Num(-5), Num(500), Num(30000), Num(30001), Num(45000),
     Str(<<"2", "5", "0">>), Str(<<" ", "4", "0", " ">>), Str(<<"1", "e", "3">>),
     Str(<<"a", "b", "c">>), Str(<<>>), Str(<<"-", "3">>),
     Str(<<"9", "9", "9", "9", "9">>), Str(<<"1", "2", "p", "x">>)}

\* type values: the valid ones as they may be written, and others
TypeInputs == {"", "png", "jpg", "jpeg", "webp", "PNG", ".png", "gif", "bmp"}

\* names: explicit file names and patterns, with and without an extension
NameInputs ==
    {NoName,
     [text |-> "home.png", pattern |-> FALSE, ext |-> ".png"],
     [text |-> "home.webp", pattern |-> FALSE, ext |-> ".webp"],
     [text |-> "home", pattern |-> FALSE, ext |-> ""],
     [text |-> "home.gif", pattern |-> FALSE, ext |-> ".gif"],
     [text |-> "home-{width}.png", pattern |-> TRUE, ext |-> ".png"],
     [text |-> "shot-{width}", pattern |-> TRUE, ext |-> ""]}

\* base URLs with no, one and two slashes at the end
BaseInputs ==
    {Undefined, Str(<<"https://", "mysite.com">>), Str(<<"https://", "mysite.com", "/">>), Str(<<"https://", "mysite.com", "/", "/">>),
     Str(<<"mysite.com">>), Str(<<"mysite.com", "/">>)}

\* URLs: relative with and without a leading slash, with a scheme, starting
\* with the base, and a host without a scheme
UrlInputs ==
    {Str(<<"page">>), Str(<<"/", "page">>), Str(<<"/", "/", "page">>),
     Str(<<"http://", "other.com", "/", "page">>),
     Str(<<"https://", "mysite.com", "/", "page">>), Str(<<"mysite.com", "/", "page">>),
     Str(<<"other.com">>)}

\* sizes: strings and objects that give a width and a height, and ones
\* that do not
SizeInputs ==
    {Str(<<"2", "x", "3">>), Str(<<"8", "0", "0", "x", "6", "0", "0">>),
     Str(<<"0", "x", "3">>), Str(<<"2", "x">>), Str(<<"2", "x", "-", "3">>),
     Str(<<"a", "x", "b">>), Str(<<"2", "x", "3", "x", "4">>), Str(<<"2", "3">>),
     Str(<<>>),
     Obj([NoParam EXCEPT !.width = Num(2), !.height = Num(3)]),
     Obj([NoParam EXCEPT !.width = Str(<<"2">>), !.height = Str(<<"3">>)]),
     Obj([NoParam EXCEPT !.width = Num(2), !.height = Num(0)]),
     Obj([NoParam EXCEPT !.width = Num(-2), !.height = Num(3)]),
     Obj([NoParam EXCEPT !.width = Num(2)]),
     Obj([NoParam EXCEPT !.width = Str(<<"w">>), !.height = Num(3)])}

\* largest number of sizes in one list of sizes
MaxSizes == 2

\* a run is <<content of the config file, typed options>>; NoParam as the
\* content stands for a run without a config file
\* ... runs about the delay: in the file and typed, ...
DelayRuns ==
    {<<[NoParam EXCEPT !.urls = <<Str(<<"page">>)>>, !.delay = d1],
       [NoParam EXCEPT !.delay = d2]>> : d1 \in DelayInputs, d2 \in DelayInputs}
    \cup {<<NoParam, [NoParam EXCEPT !.urls = <<Str(<<"page">>)>>, !.delay = d]>> :
            d \in DelayInputs}

\* ... about the type and the name (`-t` takes jpg, png and webp), ...
TypeRuns ==
    {<<[NoParam EXCEPT !.urls = <<Str(<<"page">>)>>, !.type = t1, !.name = n1],
       [NoParam EXCEPT !.type = t2]>> :
        t1 \in TypeInputs, n1 \in NameInputs, t2 \in {"", "jpg", "png", "webp"}}
    \cup {<<NoParam, [NoParam EXCEPT !.urls = <<Str(<<"page">>)>>, !.type = t,
                                     !.name = n]>> :
            t \in {"", "jpg", "png", "webp"}, n \in NameInputs}

\* ... about the base URL, ...
BaseRuns ==
    {<<[NoParam EXCEPT !.urls = <<u1, u2>>, !.base = b], NoParam>> :
        u1 \in UrlInputs, u2 \in UrlInputs, b \in BaseInputs}
    \cup {<<NoParam, [NoParam EXCEPT !.urls = <<u>>, !.base = b]>> :
            u \in UrlInputs, b \in BaseInputs}

\* ... about the sizes, ...
SizeRuns ==
    {<<[NoParam EXCEPT !.urls = <<Str(<<"page">>)>>, !.sizes = s1],
       [NoParam EXCEPT !.sizes = s2]>> :
        s1 \in UNION {[1..n -> SizeInputs] : n \in 0..MaxSizes}, s2 \in {<<>>, <<Str(<<"4", "x", "5">>)>>,
                                  <<Str(<<"4", "x">>)>>}}

\* ... about the seven options with a command line default: each is in
\* the file or not, and none, one or all of them are typed, ...
FileSettings ==
    {[NoParam EXCEPT !.urls = <<Str(<<"page">>)>>, !.type = t, !.width = w,
                     !.height = h, !.quality = q, !.fullScreen = f,
                     !.scrollDelay = s, !.stitchThreshold = th] :
        t \in {"", "png"}, w \in {Undefined, Num(800)},
        h \in {Undefined, Num(600)}, q \in {Undefined, Num(80)},
        f \in {"unset", "false"}, s \in {Undefined, Num(250)},
        th \in {Undefined, Num(8000)}}

TypedSettings ==
    LET all == [NoParam EXCEPT
                   !.type = "webp", !.width = Str(<<"3", "2", "0">>),
                   !.height = Str(<<"4", "8", "0">>),
                   !.quality = Str(<<"5", "0">>), !.fullScreen = "false",
                   !.scrollDelay = Str(<<"1", "0">>),
                   !.stitchThreshold = Str(<<"9", "0", "0">>)]
    IN {NoParam, all}
       \cup {[NoParam EXCEPT ![k] = all[k]] :
               k \in {"type", "width", "height", "quality", "fullScreen",
                      "scrollDelay", "stitchThreshold"}}

DefaultRuns == {<<f, t>> : f \in FileSettings, t \in TypedSettings}

\* ... and about the levels of the configuration: a value of the type and
\* of the delay, or none, in the file, on the URL entry and on the size
\* entry, valid or not.
LevelRuns ==
    {<<[NoParam EXCEPT
          !.type = t0, !.delay = d0,
          !.urls = <<Obj([NoParam EXCEPT !.url = Str(<<"page">>), !.type = t1,
                                         !.delay = d1]),
                     Str(<<"/", "page">>)>>,
          !.sizes = IF sized
                    THEN <<Obj([NoParam EXCEPT !.width = Num(800),
                                               !.height = Num(600),
                                               !.type = t2, !.delay = d2]),
                           Str(<<"0", "x", "3">>), Str(<<"2", "x", "3">>)>>
                    ELSE <<>>],
       typed>> :
        t0 \in {"", "png"}, d0 \in {Undefined, Num(100)},
        t1 \in {"", "webp", "gif"}, d1 \in {Undefined, Num(200), Num(-5)},
        t2 \in {"", "jpg", "png"}, d2 \in {Undefined, Num(300), Num(0)},
        sized \in BOOLEAN,
        typed \in {NoParam, [NoParam EXCEPT !.type = "webp"],
                   [NoParam EXCEPT !.delay = Str(<<"5", "0">>)]}}

InitConfig ==
    /\ PoolOff
    /\ CaptureOff
    /\ ppc = "start"
    /\ \E run \in DelayRuns \cup TypeRuns \cup BaseRuns \cup SizeRuns
                   \cup DefaultRuns \cup LevelRuns :
           configFileOptions = run[1] /\ args = run[2]
    /\ parserConfig = defaultConfig
    /\ urlObject = NoUrl
    /\ urlIdx = 0
    /\ sizeIdx = 0
    /\ queued = <<>>

NextConfig ==
    \/ ParseFileOptions
    \/ ParseOptions
    \/ QueueUrl
    \/ QueueSize
    \/ QueueEnd

SpecConfig == InitConfig /\ [][NextConfig]_vars

(***************************************************************************)
(* Properties of the pool (checked under Spec).                            *)
(***************************************************************************)
Queued == 1..Len(jobData)

Failures == {j \in Queued : result[j] = "failure"}
Successes == {j \in Queued : result[j] = "success"}

\* C1: failure isolation. A job that has finished, failed or not, no longer
\* holds a worker; after the drain every queued job has finished, the jobs
\* given something to fail on (unreachable URL, capture error, write error)
\* are exactly the failed ones and every other job succeeded, so a batch of
\* one bad descriptor and N good ones ends with 1 failure and N successes.
C1_FailureIsolation ==
    /\ \A j \in JobIds : result[j] # "none" => j \notin workersBusy
    /\ drainReturned =>
         /\ Failures = {j \in Queued : fault[j] # "none"}
         /\ Successes = {j \in Queued : fault[j] = "none"}

C1_Witness ==
    /\ pc = "done"
    /\ Len(jobData) > maxConcurrency
    /\ \E b \in Queued :
         /\ fault[b] = "nav"
         /\ Failures = {b}
         /\ Successes = Queued \ {b}

\* C2: pool concurrency bound. At most 10 jobs are being executed at any
\* time, also when more jobs than that are queued.
C2_ConcurrencyBound == Cardinality(workersBusy) <= 10

C2_Witness ==
    /\ Cardinality(workersBusy) = 10
    /\ jobQueue # <<>>

\* C4: drain. cluster.idle() has returned only when no job is waiting, no
\* job is executing and every job queued so far has finished with a success
\* or a failure.
C4_DrainComplete ==
    drainReturned =>
        /\ jobQueue = <<>>
        /\ workersBusy = {}
        /\ \A j \in Queued : result[j] \in {"success", "failure"}

C4_Witness ==
    /\ drainReturned
    /\ Len(jobData) > maxConcurrency
    /\ Failures # {}

\* C5: lifecycle ordering. No cluster.queue call comes after idle() was
\* called or after close(); when idle() is called every config file has been
\* handled; close() is called only after idle() has returned.
C5_LifecycleOrder ==
    /\ ~queuedLate
    /\ drainStarted => (fileIdx = Len(configFiles) /\ pc \in {"idle", "close", "done"})
    /\ closed => drainReturned

C5_Witness ==
    /\ closed
    /\ Len(configFiles) = 2
    /\ \E i, j \in Queued : jobData[i].file = 1 /\ jobData[j].file = 2

\* C6: a failed launch aborts the run. Once Cluster.launch has rejected no
\* job is queued, none is executed and no job has a result (no file written).
C6_LaunchFailureAborts ==
    launchFailed =>
        /\ pc = "aborted"
        /\ jobData = <<>>
        /\ jobQueue = <<>>
        /\ workersBusy = {}
        /\ \A j \in JobIds : runs[j] = 0 /\ result[j] = "none"

C6_Witness ==
    /\ launchFailed
    /\ TotalQueued(configFiles, cliUrls) > 0

RECURSIVE Count(_, _)
Count(q, j) ==
    IF q = <<>> THEN 0
    ELSE (IF Head(q) = j THEN 1 ELSE 0) + Count(Tail(q), j)

\* C7: every queued job is executed exactly once. The task function is
\* never started twice on a job; a job is in exactly one place (waiting,
\* being executed by one worker, or finished); a finished job, failed or
\* not, is never put back on the queue; after the drain every queued job
\* has been executed once.
C7_ExactlyOnce ==
    /\ \A j \in JobIds : runs[j] <= 1
    /\ \A j \in Queued :
         (IF j \in workersBusy THEN 1 ELSE 0)
           + (IF result[j] # "none" THEN 1 ELSE 0)
           + Count(jobQueue, j) = 1
    /\ \A j \in Queued : (j \in workersBusy \/ result[j] # "none") <=> runs[j] = 1
    /\ drainReturned => \A j \in Queued : runs[j] = 1

C7_Witness ==
    /\ drainReturned
    /\ Len(jobData) > maxConcurrency
    /\ errorCount = 1
    /\ \A j \in Queued : runs[j] = 1

(***************************************************************************)
(* Properties of one job (checked under SpecCapture).                      *)
(***************************************************************************)
\* C3: for every job exactly one outcome is reported, `Saved` only when the
\* image was written and an error otherwise.
C3_OneTruthfulReport ==
    cpc = "done" =>
        /\ Len(log) = 1
        /\ log[1] = "saved" <=> fileWritten

\* C8: with a clip rectangle set, whatever fullScreen is, the stabilization
\* loop never scrolls, every screenshot call has full-page mode off and the
\* descriptor's rectangle as clip, there is never more than one call, and a
\* job that got to its capture made exactly one.
C8_ClipCapture ==
    HasClip(url) =>
        /\ loopScrolls = 0
        /\ Len(shots) <= 1
        /\ \A i \in 1..Len(shots) :
             /\ shots[i].cfg.fullPage = FALSE
             /\ shots[i].cfg.clip = url.clip
        /\ (cpc = "done" /\ ~threw) => Len(shots) = 1

C8_Witness ==
    /\ cpc = "done"
    /\ HasClip(url)
    /\ url.fullScreen
    /\ Len(shots) = 1
    /\ fileWritten

\* C9: when the final page height is at most stitchThreshold (equality
\* included) the only screenshot call is one native full-page call: no
\* segment is captured, nothing is stitched.
C9_NativeAtOrBelowThreshold ==
    (fullHeight >= 0 /\ fullHeight <= url.stitchThreshold) =>
        /\ ~stitched
        /\ Len(shots) <= 1
        /\ \A i \in 1..Len(shots) :
             /\ shots[i].cfg.fullPage = TRUE
             /\ shots[i].cfg.captureBeyondViewport = TRUE
        /\ cpc = "done" => Len(shots) = 1

C9_Witness ==
    /\ cpc = "done"
    /\ fullHeight = url.stitchThreshold
    /\ Len(shots) = 1
    /\ shots[1].cfg.fullPage
    /\ fileWritten

\* C10: when the final page height H, the one compared with stitchThreshold,
\* is above the threshold, a job that stitched its image captured
\* ceil(H / viewportHeight) segments.
C10_SegmentCount ==
    (cpc = "done" /\ fileWritten /\ fullHeight > url.stitchThreshold) =>
        Len(shots) = CeilDiv(fullHeight, url.height)

\* C11: in segmented capture the stitched image written to the path has
\* height H x devicePixelRatio, H being the final page height (fullHeight,
\* the height compared with stitchThreshold).
C11_StitchedHeight ==
    (stitched /\ fileWritten) =>
        image.height = fullHeight * url.deviceScaleFactor

\* C12: the stabilization loop makes at most 50 scroll iterations whatever
\* heights are measured: the 50th iteration is the last one, no iteration is
\* started after it.
C12_LoopBound ==
    /\ loopScrolls <= 50
    /\ cpc = "loop" => loopScrolls < 50

C12_Witness ==
    /\ cpc = "final"
    /\ loopScrolls = 50
    /\ sameHeightCount = 0

\* C13: every iteration of the stabilization loop compares the document
\* height it measures with the document height measured just before it, for
\* the first iteration the document height measured before the first scroll
\* (pageSizeInfo.pageHeight): after the first iteration the count is 1 when
\* the height is unchanged and 0 when it changed; the loop is left before
\* the 50th iteration only with a count of 3.
C13_EarlyStop ==
    /\ (cpc = "loop" /\ index = 1) =>
          (sameHeightCount = 1 <=> lastHeight = pageSizeInfo.pageHeight)
    /\ (cpc = "final" /\ loopScrolls < 50) => sameHeightCount = 3

\* C14: segment cropping. In the stitched image every segment but the last
\* is there whole; the last one gives exactly extraHeight rows, its bottom
\* ones, when extraHeight > 0, and is whole when extraHeight is 0.
C14_SegmentCropping ==
    (stitched /\ fileWritten) =>
        LET n == Len(shots)
            extraHeight == pageSizeInfo.extraHeight
        IN /\ n > 0
           /\ Len(image.parts) = n
           /\ \A i \in 1..(n - 1) : image.parts[i] = ViewportImage(shots[i].top)
           /\ LET segment == ViewportImage(shots[n].top)
                  part == image.parts[n]
              IN IF extraHeight > 0
                 THEN /\ part.height = extraHeight
                      /\ part.from + part.height = segment.from + segment.height
                 ELSE part = segment

C14_Witness ==
    /\ stitched
    /\ fileWritten
    /\ Len(shots) >= 2
    /\ pageSizeInfo.extraHeight > 0
    /\ image.parts[Len(shots)].height < ViewportImage(0).height
    /\ image.parts[1] = ViewportImage(0)

\* C15: in segmented capture the stitched image written to the path is
\* encoded in the file type of the descriptor.
C15_StitchedFormat ==
    (stitched /\ fileWritten) => image.type = url.fileType

\* C16: an error while hiding elements (hideSelector, or hideStitchSelector
\* in the segment loop) does not end the job: a job in which hiding failed
\* still writes its image.
C16_HideErrorsNonFatal == failed = "hide" => fileWritten

\* some scroll, height measurement or screenshot has been made
Measured == Len(shots) > 0 \/ loopScrolls > 0 \/ pageSizeInfo # NoInfo

\* C18: step order in a job. The page is loaded only after the viewport was
\* set; no hiding, measurement or capture comes before the delay is over;
\* when hideSelector is given its elements have been hidden (the hide step
\* called hideElements on them) before any scroll, measurement or screenshot.
C18_StepOrder ==
    /\ docHeight > 0 => cpc # "start"
    /\ Measured => cpc \notin {"start", "goto", "delay", "hide"}
    /\ (Measured /\ configParam.hideSelector) => url.hideSelector

\* C19: the hideStitchSelector elements are hidden only in segmented
\* capture (no clip, full page, height above the threshold, every
\* screenshot a segment), and every hiding comes after a segment was
\* captured and the page scrolled.
C19_HideStitchOnlySegmented ==
    stitchHides > 0 =>
        /\ ~HasClip(url)
        /\ url.fullScreen
        /\ fullHeight > url.stitchThreshold
        /\ Len(shots) >= 1
        /\ \A i \in 1..Len(shots) : shots[i].cfg = SegmentConfig(url)
        /\ stitchHides <= Len(shots) - (IF failed = "hide" THEN 0 ELSE 1)

C19_Witness ==
    /\ cpc = "done"
    /\ stitchHides > 0
    /\ fileWritten
    /\ Len(shots) >= 2

\* C20: with fit set to true no stabilization loop runs, no screenshot call
\* is a full-page one and there is never more than one call; a job that
\* wrote its image had a descriptor that is not full page and made one call.
C20_FitCapturesViewport ==
    configParam.fit = "true" =>
        /\ loopScrolls = 0
        /\ Len(shots) <= 1
        /\ \A i \in 1..Len(shots) : shots[i].cfg.fullPage = FALSE
        /\ fileWritten => (~url.fullScreen /\ Len(shots) = 1)

(***************************************************************************)
(* Properties of the queued descriptors (checked under Spec).              *)
(***************************************************************************)
\* C17: two descriptors queued in a run that differ in their URL or in
\* their viewport size have different output paths.
C17_DistinctPaths ==
    \A i, j \in Queued :
        (jobData[i].url # jobData[j].url
           \/ Viewport(jobData[i].size) # Viewport(jobData[j].size))
        => jobData[i].path # jobData[j].path

\* C26: after the stabilization loop every measurement the capture uses
\* (the height compared with stitchThreshold, the number of segments and
\* extraHeight) is taken after the scroll back to the top and the 100 ms
\* pause: once the height has been read, the number of segments and
\* extraHeight are those of the page as it is after the pause.
C26_MeasuredAfterPause ==
    fullHeight >= 0 => pageSizeInfo = GetPageSizeInfo(fullHeight)

\* C27: in segmented capture the hideStitchSelector elements are hidden
\* exactly once per job, after the first scroll, whatever the number of
\* segments (two or more, so that there is a first scroll).
C27_HiddenOnce ==
    (stitched /\ url.hideStitchSelector /\ Len(shots) >= 2) => stitchHides = 1

\* C28: the jobs queued for a config file are that file's URLs (and the
\* URLs of the command line) combined with that file's sizes, each URL
\* once per size: no URL or size read from another file, no pair twice.
C28_FilesKeptApart ==
    \A i \in Queued :
        /\ jobData[i].url.from \in {jobData[i].file, 0}
        /\ jobData[i].size.from \in {jobData[i].file, -1}
        /\ \A j \in Queued :
              (j # i /\ jobData[j].file = jobData[i].file)
              => <<jobData[j].url, jobData[j].size>>
                   # <<jobData[i].url, jobData[i].size>>

\* C30: for a page whose height H stays the same, the stitched image holds
\* the pixel rows 0 .. H x pixelRatio - 1 of the document, each once and
\* from top to bottom: the first part starts at row 0, every part starts
\* where the part before it ends, and the last part ends at the last row.
C30_RowsOnceInOrder ==
    (stitched /\ fileWritten /\ pageSizeInfo.pageHeight = fullHeight) =>
        LET parts == image.parts
            n == Len(parts)
        IN /\ n > 0
           /\ parts[1].from = 0
           /\ \A i \in 1..(n - 1) :
                 parts[i + 1].from = parts[i].from + parts[i].height
           /\ parts[n].from + parts[n].height = fullHeight * url.deviceScaleFactor
           /\ \A i \in 1..n : parts[i].height > 0

\* a stitched image of a page of constant height whose last scroll was
\* clamped: the last segment starts before the end of the one before it
C30_Witness ==
    /\ stitched /\ fileWritten
    /\ pageSizeInfo.pageHeight = fullHeight
    /\ Len(shots) >= 3
    /\ pageSizeInfo.extraHeight > 0
    /\ shots[Len(shots)].top < (Len(shots) - 1) * innerHeight

(***************************************************************************)
(* Properties of the configuration (checked under SpecConfig).             *)
(***************************************************************************)
\* the descriptors queued so far
QueuedConfig == 1..Len(queued)

\* the number a delay option asks for: the number itself, or the numeric
\* value of a numeric string
Requested(value) ==
    IF isNumber(value) THEN Int_(value.n)
    ELSE IF isNumberString(value) THEN StringToNumber(value.s)
    ELSE NaN

\* the delay stored by a parse of the option `value` is the value asked
\* for, and maxDelay when more is asked for
StoredDelay(value, delay) ==
    Positive(Requested(value)) => delay = Min(Requested(value).n, maxDelay)

\* C21: after the parse() calls of a parser started from the default
\* configuration the delay is within 0..30000, a requested delay above
\* 30000 is stored as 30000, and a numeric string is stored as its
\* integer value.
C21_DelayStored ==
    /\ ppc # "off" => parserConfig.delay \in 0..maxDelay
    /\ \A i \in QueuedConfig : queued[i].delay \in 0..maxDelay
    /\ ppc = "options" => StoredDelay(configFileOptions.delay, parserConfig.delay)
    /\ ppc \in {"urls", "sizes", "done"} =>
           StoredDelay(Commander(args).delay, parserConfig.delay)

\* the ways the valid file types are written in the runs
ValidTypeForms == {"jpg", "jpeg", "png", "webp", "PNG", ".png"}

\* a delay option that is negative or not a number
InvalidDelay(value) ==
    \/ isNumber(value) /\ value.n < 0
    \/ value.t = "string" /\ ~isNumberString(value)
    \/ isNumberString(value) /\ StringToNumber(value.s).n < 0

\* a size entry that gives a positive integer width and height: the string
\* WIDTHxHEIGHT, or an object with a width and a height
Resolves(size) ==
    \/ /\ size.t = "string"
       /\ Len(Split(size.s)) = 2
       /\ Positive(parseInt(Split(size.s)[1]))
       /\ Positive(parseInt(Split(size.s)[2]))
    \/ /\ size.t = "object"
       /\ Positive(Requested(size.o.width))
       /\ Positive(Requested(size.o.height))

\* the entries of a list of sizes that resolve
Resolving(list) == {i \in 1..Len(list) : Resolves(list[i])}

\* a parse of the data p takes the configuration from `before` to `after`
\* and leaves the file type and the delay as they were when p has an
\* invalid one (the file type when p names no file either)
KeepsPrevious(p, before, after) ==
    /\ (p.type \notin ValidTypeForms /\ p.name = NoName) =>
           after.fileType = before.fileType
    /\ InvalidDelay(p.delay) => after.delay = before.delay

\* the data a step of processOptions parses
ParsedData ==
    IF ppc = "start" /\ configFileOptions # NoParam
    THEN configFileOptions
    ELSE Commander(args)

TypeOfExt(ext) == IF ext = "jpg" THEN "jpeg" ELSE ext

\* C23: the file type a queued descriptor is encoded with is the type of
\* the extension its output path ends with; so a name, explicit or a
\* pattern, that ends in a valid image extension gives the type of that
\* extension.
C23_EncodingMatchesPath ==
    \A i \in QueuedConfig : queued[i].fileType = TypeOfExt(queued[i].path.ext)

\* a run whose descriptors are the global configuration: no URL entry and
\* no size brings values of its own
PlainRun ==
    /\ \A i \in 1..Len(configFileOptions.urls) :
           configFileOptions.urls[i].t = "string"
    /\ configFileOptions.sizes = <<>>
    /\ args.sizes = <<>>

\* the descriptor field has the number the config file gives for it when
\* the option is not typed
FileNumberKept(option, field, q) ==
    (Positive(Requested(configFileOptions[option])) /\ args[option] = Undefined)
        => q[field] = Requested(configFileOptions[option]).n

\* C29: a value the config file sets for type, width, height, quality,
\* full-screen, scrollDelay or stitchThreshold is the value of the
\* descriptor when the option is not typed on the command line.
C29_FileValuesKept ==
    (PlainRun /\ configFileOptions # NoParam) =>
        \A i \in QueuedConfig :
            LET q == queued[i]
            IN /\ (configFileOptions.type \in ValidTypeForms /\ args.type = "")
                      => q.fileType = TypeOfExt(LowerNoDot(configFileOptions.type))
               /\ FileNumberKept("width", "width", q)
               /\ FileNumberKept("height", "height", q)
               /\ (/\ FileNumberKept("quality", "quality", q)
                   /\ FileNumberKept("scrollDelay", "scrollDelay", q)
                   /\ FileNumberKept("stitchThreshold", "stitchThreshold", q))
               /\ (/\ isBoolLike(configFileOptions.fullScreen)
                   /\ args.fullScreen = "unset"
                   /\ args.fit = "unset" /\ configFileOptions.fit = "unset")
                      => q.fullScreen = isTrueLike(configFileOptions.fullScreen)

\* a URL text without the slashes at its end, and without those at its
\* start
RECURSIVE NoSlashAtEnd(_)
NoSlashAtEnd(s) ==
    IF s # <<>> /\ s[Len(s)] = "/" THEN NoSlashAtEnd(SubSeq(s, 1, Len(s) - 1))
    ELSE s

RECURSIVE NoSlashAtStart(_)
NoSlashAtStart(s) ==
    IF s # <<>> /\ s[1] = "/" THEN NoSlashAtStart(Tail(s)) ELSE s

\* the base URL the run gives: the typed one, else the one of the file
GivenBase ==
    IF isStringWithValue(args.base) THEN args.base.s
    ELSE IF isStringWithValue(configFileOptions.base)
    THEN configFileOptions.base.s
    ELSE <<>>

\* the base and the URL with exactly one '/' between them
Joined(base, s) == NoSlashAtEnd(base) \o <<"/">> \o NoSlashAtStart(s)

\* C25: the stored base URL has no '/' at its end; a URL without scheme
\* that does not start with the base is resolved to the base, one '/' and
\* the URL, whether or not the base ended and the URL started with '/';
\* every resolved URL starts with http:// or https://.
C25_BaseJoined ==
    /\ ppc # "off" =>
           (parserConfig.baseUrl = <<>>
            \/ parserConfig.baseUrl[Len(parserConfig.baseUrl)] # "/")
    /\ \A i \in QueuedConfig : HasScheme(queued[i].url)
    /\ (PlainRun /\ GivenBase # <<>>) =>
           \A i \in QueuedConfig :
               LET s == parserConfig.urls[i].o.url.s
               IN (~HasScheme(s) /\ ~StartsWith(s, NoSlashAtEnd(GivenBase))) =>
                      queued[i].url \in {Joined(GivenBase, s),
                                         <<"https://">> \o Joined(GivenBase, s)}

\* the URL entry and the size entry the k-th queued descriptor is made
\* from; a descriptor of a URL without sizes has no size entry
SizeCount == Len(parserConfig.sizes)

UrlEntryOf(k) ==
    IF SizeCount = 0 THEN parserConfig.urls[k].o
    ELSE parserConfig.urls[((k - 1) \div SizeCount) + 1].o

SizeEntryOf(k) ==
    IF SizeCount = 0 THEN NoParam
    ELSE parserConfig.sizes[((k - 1) % SizeCount) + 1].o

\* a delay option that gives a delay: a number that is not negative
ValidDelay(value) == ~Requested(value).nan /\ Requested(value).n >= 0

\* the file type a type option stands for
TypeOf(type) == TypeOfExt(LowerNoDot(type))

\* the type and the delay of the first level that gives a valid one: the
\* size entry, the URL entry, the global configuration (the typed option,
\* else the config file), the built-in default
TypeByPrecedence(size, entry) ==
    IF size.type \in ValidTypeForms THEN TypeOf(size.type)
    ELSE IF entry.type \in ValidTypeForms THEN TypeOf(entry.type)
    ELSE IF args.type \in ValidTypeForms THEN TypeOf(args.type)
    ELSE IF configFileOptions.type \in ValidTypeForms
    THEN TypeOf(configFileOptions.type)
    ELSE "jpeg"

DelayByPrecedence(size, entry) ==
    LET given == IF ValidDelay(size.delay) THEN size.delay
                 ELSE IF ValidDelay(entry.delay) THEN entry.delay
                 ELSE IF ValidDelay(args.delay) THEN args.delay
                 ELSE IF ValidDelay(configFileOptions.delay)
                 THEN configFileOptions.delay
                 ELSE Num(0)
    IN Min(Requested(given).n, maxDelay)

\* C24: in the runs with values on the levels of the configuration, the
\* file type and the delay of every queued descriptor are those of the
\* first level that gives a valid value: size entry, URL entry, global
\* configuration, built-in default. A descriptor of a URL or size without
\* a value of its own so has the value of the level above, whatever the
\* other URLs and sizes give.
C24_Precedence ==
    <<configFileOptions, args>> \in LevelRuns =>
        \A k \in QueuedConfig :
            /\ queued[k].fileType = TypeByPrecedence(SizeEntryOf(k), UrlEntryOf(k))
            /\ queued[k].delay = DelayByPrecedence(SizeEntryOf(k), UrlEntryOf(k))


====
